---- MODULE Spec2Model ----
(***************************************************************************)
(* A model of the crawl - dedup - enrich pipeline of the Pinterest         *)
(* scraper.  The repository holds several drivers of the same pipeline;    *)
(* each one is modelled as its own specification over the shared variables:*)
(*                                                                         *)
(*   SpecJob   api/scraper_service.py  ScraperService.execute_scraping_job *)
(*             with api/database.py (MongoDB) and                          *)
(*             pinterest_scraper.py PinterestScraper.scrape_boards         *)
(*   SpecPipe  production_pipeline.py  run_production_pipeline with        *)
(*             database.py (sqlite)                                        *)
(*   SpecAuto  automated_scraper.py  AutomatedPinterestScraper.run / stop  *)
(*             and the restart of the service                              *)
(*   SpecRun   automated_scraper.py  one run of the service, no restart    *)
(*   SpecCrawl pinterest_scraper.py  PinterestScraper.extract_board_pins   *)
(*   SpecPool  pinterest_scraper.py  the ThreadPoolExecutor of             *)
(*             scrape_boards running process_pin                           *)
(*   SpecPoolFair  the same pool without the passing of time, its threads  *)
(*             scheduled fairly                                            *)
(*   SpecDelete  api/database.py  MongoDB.delete_job beside a running job  *)
(*   SpecCreate  api/database.py  concurrent MongoDB.create_pin calls      *)
(*   SpecCron  cron_scraper.py  CronScraper.run_daily_scrape               *)
(*   SpecDl    image_downloader.py  ImageDownloader.download_image         *)
(***************************************************************************)
EXTENDS Integers, Sequences, FiniteSets, TLC

(***************************************************************************)
(* Bounds of the model.                                                    *)
(***************************************************************************)
MaxPinId == 2
NumBoards == 2
MaxCycles == 2
MaxWorkers == 2
PoolItems == 3

PinIds == 1..MaxPinId

VARIABLES
    \* ---- api job (scraper_service.py, api/database.py) ----
    job,          \* the job document of db.jobs
    jpc,          \* position of execute_scraping_job
    boardIdx,     \* scrape_boards: number of boards handled so far
    all_pins,     \* scrape_boards: all_pins / scraped_pins
    storeIdx,     \* for pin in scraped_pins: number of pins iterated
    processed_pins,
    dbPins,       \* the documents of db.pins, in insertion order
    failCause,    \* history: what raised into the handler of the job
    statusLog,    \* history: the statuses stored in the job document, in order
    dpc,          \* position of a delete_job call for the job
    \* ---- production pipeline (production_pipeline.py, database.py) ----
    rows,         \* the rows of the sqlite pins table, in insertion order
    run,          \* which run of the pipeline this is (each run is a process)
    ppc,          \* position of run_production_pipeline
    feed,         \* what scraper.scrape_board returns for each board
    board,        \* index of the board being processed
    retry_count,
    existing_pin_ids,
    boards_stats, \* self.stats['boards_stats']
    runResult,    \* what run_production_pipeline returned, per run
    attemptLog,   \* history: the outcomes of the crawl attempts of the board
    waitLog,      \* history: the sleeps between attempts of the current board
    inserted,     \* history: the pin ids each run inserted into the pins table
    saveFailed,   \* history: some INSERT of the pipeline has failed
    \* ---- automated scraper (automated_scraper.py) ----
    apc,          \* position of run / scrape_cycle / process_new_pins
    running,      \* self.running
    aBoard,       \* scrape_cycle: index of the board being checked
    new_pins,     \* what scrape_board returned for the board
    procIdx,      \* process_new_pins: number of pins processed
    scraped_pins, \* self.scraped_pins
    dataset,      \* the pins written to scraped_data/pinterest_dataset.jsonl
    tracker,      \* scraped_pins_tracker.json: the ids written, and whether
                  \* the JSON text is complete
    cycle,        \* number of completed scrape cycles
    stopRequested,  \* history: stop() has been called
    lateDiscovered, \* history: the pin ids discovered after stop()
    lateSteps,      \* history: the kinds of work started after stop()
    restarts,       \* number of times the service has been started again
                    \* (the model follows it through one restart)
    durable,        \* history: scraped_pins at the last save that succeeded
    processLog,     \* history: the pins this process has processed, with
                    \* the cycle of each
    skipped,        \* history: the pins this process has found again and
                    \* filtered out
    \* ---- extract_board_pins (pinterest_scraper.py) ----
    cpc,          \* position of extract_board_pins
    source,       \* the board: its pages and how the browser renders a repeated page
    loaded,       \* number of pages the board has served
    dom,          \* the [data-test-id='pin'] elements of the page, as pin ids
    pins_data,
    scroll_attempts,
    max_pins,
    result,       \* what extract_board_pins has handed to its caller
    crawl_log,    \* the messages extract_board_pins has logged
    broke,        \* history: a page of the board could not be fetched
    scrolled_at_limit,  \* history: a scroll was made with max_pins pins collected
    no_growth_run,  \* history: the scrolls in a row, up to now, that added no element
    \* ---- the thread pool of scrape_boards (pinterest_scraper.py) ----
    pool_size,    \* len(pins_data): the number of futures submitted
    max_workers,  \* config['max_workers']
    ai_enabled,   \* self.ai_enabled
    stage,        \* the stage of the future of each pin
    started,      \* history: how many times a worker has picked up each pin
    download_lock,  \* holder of self.download_lock, 0 when free
    analysis_lock,  \* holder of self.analysis_lock, 0 when free
    pool_pins,    \* the pins appended to all_pins from future.result()
    pool_failed,  \* number of futures whose result() raised
    peak,         \* history: the largest number of futures running at once
    idle_time,    \* time since the last outbound request, up to request_delay
    gaps,         \* history: the gaps between consecutive outbound requests
    pool_errors,  \* history: the kinds of failure the pool's futures have had
    \* ---- concurrent MongoDB.create_pin calls (api/database.py) ----
    calls,        \* the create_pin calls: pin_id, job_id and position of each
    pins_coll,    \* the documents of db.pins, in insertion order
    has_index,    \* whether the unique index on pin_id exists
    \* ---- the daily cron job (cron_scraper.py) ----
    kpc,          \* position of run_daily_scrape
    cron_db,      \* the pin ids of the sqlite pins table
    cron_existing,  \* run_daily_scrape: existing_pin_ids
    cron_board,   \* index of the board of the for loop
    cron_feed,    \* history: what scraper.scrape_board returned, per board
    cron_new,     \* result['new_pins'] of each board handled so far
    save_idx,     \* save_new_pins: number of new pins iterated
    save_calls,   \* history: the pin ids db.save_pin was called with, in order
    save_failed,  \* history: the pin ids whose db.save_pin returned None
    \* ---- ImageDownloader.download_image (image_downloader.py) ----
    ipc,          \* position of the download_image call under way
    dl_pin,       \* the pin of the call
    files,        \* what is at the target path of each pin
    dl_returns    \* history: what the calls returned, with the file then
                  \* at the target path

jobVars == <<job, jpc, boardIdx, all_pins, storeIdx, processed_pins, dbPins,
             failCause, statusLog, dpc>>

pipeVars == <<rows, run, ppc, feed, board, retry_count, existing_pin_ids,
              boards_stats, runResult, attemptLog, waitLog, inserted, saveFailed>>

autoVars == <<apc, running, aBoard, new_pins, procIdx, scraped_pins, dataset,
              tracker, cycle, stopRequested, lateDiscovered, lateSteps,
              restarts, durable, processLog, skipped>>

crawlVars == <<cpc, source, loaded, dom, pins_data, scroll_attempts, max_pins,
               result, crawl_log, broke, scrolled_at_limit, no_growth_run>>

poolVars == <<pool_size, max_workers, ai_enabled, stage, started, download_lock,
              analysis_lock, pool_pins, pool_failed, peak, idle_time, gaps,
              pool_errors>>

createVars == <<calls, pins_coll, has_index>>

cronVars == <<kpc, cron_db, cron_existing, cron_board, cron_feed, cron_new,
              save_idx, save_calls, save_failed>>

dlVars == <<ipc, dl_pin, files, dl_returns>>

vars == <<jobVars, pipeVars, autoVars, crawlVars, poolVars, createVars, cronVars, dlVars>>

JobOnly == UNCHANGED <<pipeVars, autoVars, crawlVars, poolVars, dpc, createVars, cronVars, dlVars>>
PipeOnly == UNCHANGED <<jobVars, autoVars, crawlVars, poolVars, createVars, cronVars, dlVars>>
AutoOnly == UNCHANGED <<jobVars, pipeVars, crawlVars, poolVars, createVars, cronVars, dlVars>>
CrawlOnly == UNCHANGED <<jobVars, pipeVars, autoVars, poolVars, createVars, cronVars, dlVars>>
PoolOnly == UNCHANGED <<jobVars, pipeVars, autoVars, crawlVars, createVars, cronVars, dlVars>>

(***************************************************************************)
(* api/models.py JobStatus                                                 *)
(***************************************************************************)
PENDING == "pending"
RUNNING == "running"
COMPLETED == "completed"
FAILED == "failed"
CANCELLED == "cancelled"
JobStatus == {PENDING, RUNNING, COMPLETED, FAILED, CANCELLED}
TerminalStatus == {COMPLETED, FAILED, CANCELLED}

ThisJob == "job_1"
EarlierJob == "job_0"

(***************************************************************************)
(* pinterest_scraper.py PinData, reduced to the fields the pipeline reads: *)
(* local_image_path is a path or None, ai_analysis a payload or None.      *)
(* classified is history: whether analyze_image_with_ai was called for the *)
(* pin (it returns None both when it fails and when it is never called).   *)
(***************************************************************************)
PinData(pid, path, analysis, called) ==
    [pin_id |-> pid, local_image_path |-> path, ai_analysis |-> analysis,
     classified |-> called]

\* process_pin: download the image, analyse it when a path came back and AI
\* is enabled, and build the PinData whatever happened.
process_pin(pid, downloadOk, aiEnabled, aiOk) ==
    LET image_path == IF downloadOk THEN "path" ELSE "None"
        called == (image_path # "None") /\ aiEnabled
        ai_analysis == IF called /\ aiOk THEN "payload" ELSE "None"
    IN PinData(pid, image_path, ai_analysis, called)

\* _convert_pin_to_document: the PinDocument stored for a PinData.
convert_pin_to_document(pin, job_id) ==
    [pin_id |-> pin.pin_id, job_id |-> job_id,
     local_image_path |-> pin.local_image_path,
     ai_analysis |-> pin.ai_analysis]

(***************************************************************************)
(* api/database.py MongoDB                                                 *)
(***************************************************************************)
\* update_job: $set of the patch on the job document; an exception of the
\* driver is swallowed (return False) and leaves the document as it was.
\* update_one has no upsert: when the document is no longer in db.jobs
\* (stored is FALSE) nothing is matched and nothing is written.
update_job(doc, patch, dbOk) ==
    IF dbOk /\ doc.stored
    THEN [k \in DOMAIN doc |-> IF k \in DOMAIN patch THEN patch[k] ELSE doc[k]]
    ELSE doc

pin_exists(pins, pid) == \E i \in 1..Len(pins) : pins[i].pin_id = pid

\* create_pin: skip a pin_id that is already stored, otherwise insert_one.
create_pin(pins, doc) ==
    IF pin_exists(pins, doc.pin_id) THEN pins ELSE Append(pins, doc)

LogStatus(log, before, after) ==
    IF after.status # before.status THEN Append(log, after.status) ELSE log

(***************************************************************************)
(* Initial state of the api job: create_scraping_job has stored the job    *)
(* document as PENDING and the background task is scheduled.  db.pins may  *)
(* hold documents of an earlier job.                                       *)
(***************************************************************************)
RECURSIVE EarlierDocs(_)
EarlierDocs(S) ==
    IF S = {} THEN <<>>
    ELSE LET p == CHOOSE x \in S : \A y \in S : x <= y
         IN <<[pin_id |-> p, job_id |-> EarlierJob,
               local_image_path |-> "path", ai_analysis |-> "payload"]>>
            \o EarlierDocs(S \ {p})

\* create_scraping_job: the JobDocument inserted for a request.
create_scraping_job(enable_ai) ==
    [status |-> PENDING, progress_percentage |-> 0,
     total_pins_scraped |-> 0, total_pins_analyzed |-> 0,
     enable_ai_analysis |-> enable_ai, stored |-> TRUE]

\* The production pipeline before it is started.
IdlePipe ==
    /\ rows = <<>>
    /\ run = 1
    /\ ppc = "idle"
    /\ feed = <<>>
    /\ board = 0
    /\ retry_count = 0
    /\ existing_pin_ids = {}
    /\ boards_stats = <<>>
    /\ runResult = <<>>
    /\ attemptLog = <<>>
    /\ waitLog = <<>>
    /\ inserted = <<>>
    /\ saveFailed = FALSE

\* The automated scraper before it is constructed.
IdleAuto ==
    /\ apc = "idle"
    /\ running = FALSE
    /\ aBoard = 0
    /\ new_pins = <<>>
    /\ procIdx = 0
    /\ scraped_pins = {}
    /\ dataset = <<>>
    /\ tracker = [ids |-> <<>>, complete |-> TRUE]
    /\ cycle = 0
    /\ stopRequested = FALSE
    /\ lateDiscovered = {}
    /\ lateSteps = {}
    /\ restarts = 0
    /\ durable = {}
    /\ processLog = <<>>
    /\ skipped = {}

\* No board is being extracted.
IdleCrawl ==
    /\ cpc = "idle"
    /\ source = [pages |-> 0, page_size |-> 0, renders_repeats |-> FALSE,
                 slow |-> FALSE]
    /\ loaded = 0
    /\ dom = <<>>
    /\ pins_data = <<>>
    /\ scroll_attempts = 0
    /\ max_pins = 0
    /\ result = [raised |-> FALSE, pins |-> <<>>]
    /\ crawl_log = {}
    /\ broke = FALSE
    /\ scrolled_at_limit = FALSE
    /\ no_growth_run = 0

\* No executor exists.
IdlePool ==
    /\ pool_size = 0
    /\ max_workers = 0
    /\ ai_enabled = FALSE
    /\ stage = <<>>
    /\ started = <<>>
    /\ download_lock = 0
    /\ analysis_lock = 0
    /\ pool_pins = <<>>
    /\ pool_failed = 0
    /\ peak = 0
    /\ idle_time = 0
    /\ gaps = {}
    /\ pool_errors = {}

\* The cron job is not running.
IdleCron ==
    /\ kpc = "idle"
    /\ cron_db = {}
    /\ cron_existing = {}
    /\ cron_board = 0
    /\ cron_feed = <<>>
    /\ cron_new = <<>>
    /\ save_idx = 0
    /\ save_calls = <<>>
    /\ save_failed = {}

\* No image has been downloaded.
IdleDl ==
    /\ ipc = "idle"
    /\ dl_pin = 0
    /\ files = [p \in PinIds |-> "absent"]
    /\ dl_returns = {}

\* No create_pin call is under way.
IdleCreate ==
    /\ calls = <<>>
    /\ pins_coll = <<>>
    /\ has_index = FALSE

InitJob ==
    /\ \E ai \in BOOLEAN : job = create_scraping_job(ai)
    /\ jpc = "scheduled"
    /\ boardIdx = 0
    /\ all_pins = <<>>
    /\ storeIdx = 0
    /\ processed_pins = 0
    /\ \E S \in SUBSET PinIds : dbPins = EarlierDocs(S)
    /\ failCause = "none"
    /\ statusLog = <<PENDING>>
    /\ dpc = "idle"

(***************************************************************************)
(* ScraperService.execute_scraping_job, one action per step between two    *)
(* awaits (scrape_boards is synchronous: its board steps belong to one     *)
(* uninterrupted call).                                                    *)
(***************************************************************************)
\* lines 75-79: the status update to RUNNING.
ExecUpdateRunning ==
    /\ jpc = "scheduled"
    /\ \E dbOk \in BOOLEAN :
         /\ job' = update_job(job, [status |-> RUNNING, progress_percentage |-> 0], dbOk)
         /\ statusLog' = LogStatus(statusLog, job, job')
    /\ jpc' = "init"
    /\ UNCHANGED <<boardIdx, all_pins, storeIdx, processed_pins, dbPins, failCause>>
    /\ JobOnly

\* lines 81-100: the config file is written and PinterestScraper constructed
\* (_load_config, setup_logging, setup_directories): either may raise.
ExecInitScraper ==
    /\ jpc = "init"
    /\ \E ok \in BOOLEAN :
         IF ok THEN jpc' = "setup_driver" /\ UNCHANGED failCause
         ELSE jpc' = "handler" /\ failCause' = "setup"
    /\ UNCHANGED <<job, boardIdx, all_pins, storeIdx, processed_pins, dbPins, statusLog>>
    /\ JobOnly

\* scrape_boards line 519: setup_driver re-raises when Chrome cannot start;
\* login_to_pinterest (line 523) swallows its errors.
ScrapeSetupDriver ==
    /\ jpc = "setup_driver"
    /\ \E ok \in BOOLEAN :
         IF ok THEN jpc' = "boards" /\ UNCHANGED failCause
         ELSE jpc' = "handler" /\ failCause' = "setup"
    /\ UNCHANGED <<job, boardIdx, all_pins, storeIdx, processed_pins, dbPins, statusLog>>
    /\ JobOnly

\* What one board contributes: extract_board_pins returns [] for a board that
\* is empty or cannot be read, else its pins, each taken through process_pin.
BoardResults(aiEnabled) ==
    {<<>>} \cup
    { <<process_pin(p, d, aiEnabled, a)>> : p \in PinIds, d \in BOOLEAN, a \in BOOLEAN }

\* scrape_boards lines 527-553: one board.  An empty extraction continues with
\* the next board; otherwise the pins are processed, appended to all_pins and
\* save_data writes the JSON file, outside any try block.
ScrapeBoard ==
    /\ jpc = "boards"
    /\ boardIdx < NumBoards
    /\ \E res \in BoardResults(job.enable_ai_analysis), saveOk \in BOOLEAN :
         IF res = <<>>
         THEN /\ boardIdx' = boardIdx + 1
              /\ UNCHANGED <<all_pins, jpc, failCause>>
         ELSE /\ all_pins' = all_pins \o res
              /\ IF saveOk
                 THEN boardIdx' = boardIdx + 1 /\ UNCHANGED <<jpc, failCause>>
                 ELSE jpc' = "handler" /\ failCause' = "save" /\ UNCHANGED boardIdx
    /\ UNCHANGED <<job, storeIdx, processed_pins, dbPins, statusLog>>
    /\ JobOnly

\* scrape_boards lines 555-556: return all_pins; lines 108-110.
ScrapeReturn ==
    /\ jpc = "boards"
    /\ boardIdx = NumBoards
    /\ jpc' = "store"
    /\ storeIdx' = 0
    /\ processed_pins' = 0
    /\ UNCHANGED <<job, boardIdx, all_pins, dbPins, failCause, statusLog>>
    /\ JobOnly

\* A loop that counts the pin whether create_pin returned or raised.
after_create_pin_always(returned) == "progress"

\* lines 116-129: the pin is counted when create_pin has returned; its
\* exception is logged and the loop continues with the next pin.
after_create_pin(returned) == IF returned THEN "progress" ELSE "store"

\* lines 112-116 and 127-129: convert and create one pin; an exception of
\* create_pin is logged and the loop continues with the next pin.
ExecStorePin ==
    /\ jpc = "store"
    /\ storeIdx < Len(all_pins)
    /\ storeIdx' = storeIdx + 1
    /\ \E dbOk \in BOOLEAN :
         /\ dbPins' = IF dbOk
                       THEN create_pin(dbPins,
                               convert_pin_to_document(all_pins[storeIdx + 1], ThisJob))
                       ELSE dbPins
         /\ jpc' = after_create_pin(dbOk)
    /\ UNCHANGED <<job, boardIdx, all_pins, processed_pins, failCause, statusLog>>
    /\ JobOnly

Progress(done, total) == (done * 100) \div total

\* lines 118-125: count the pin and store the progress.
ExecUpdateProgress ==
    /\ jpc = "progress"
    /\ processed_pins' = processed_pins + 1
    /\ \E dbOk \in BOOLEAN :
         job' = update_job(job,
                   [progress_percentage |-> Progress(processed_pins + 1, Len(all_pins)),
                    total_pins_scraped |-> processed_pins + 1], dbOk)
    /\ jpc' = "store"
    /\ UNCHANGED <<boardIdx, all_pins, storeIdx, dbPins, failCause, statusLog>>
    /\ JobOnly

analyzed_count(pins) ==
    Cardinality({i \in 1..Len(pins) : pins[i].ai_analysis # "None"})

\* lines 131-141: the status update to COMPLETED.
ExecMarkCompleted ==
    /\ jpc = "store"
    /\ storeIdx = Len(all_pins)
    /\ \E dbOk \in BOOLEAN :
         /\ job' = update_job(job,
                      [status |-> COMPLETED, progress_percentage |-> 100,
                       total_pins_scraped |-> processed_pins,
                       total_pins_analyzed |-> analyzed_count(all_pins)], dbOk)
         /\ statusLog' = LogStatus(statusLog, job, job')
    /\ jpc' = "cleanup"
    /\ UNCHANGED <<boardIdx, all_pins, storeIdx, processed_pins, dbPins, failCause>>
    /\ JobOnly

\* lines 143-147: the temporary config file is removed, still inside the try
\* block: an OSError of os.remove reaches the handler.
ExecCleanup ==
    /\ jpc = "cleanup"
    /\ \E ok \in BOOLEAN :
         IF ok THEN jpc' = "done" /\ UNCHANGED failCause
         ELSE jpc' = "handler" /\ failCause' = "cleanup"
    /\ UNCHANGED <<job, boardIdx, all_pins, storeIdx, processed_pins, dbPins, statusLog>>
    /\ JobOnly

\* lines 149-157: except Exception: the status update to FAILED.
ExecMarkFailed ==
    /\ jpc = "handler"
    /\ \E dbOk \in BOOLEAN :
         /\ job' = update_job(job, [status |-> FAILED], dbOk)
         /\ statusLog' = LogStatus(statusLog, job, job')
    /\ jpc' = "done"
    /\ UNCHANGED <<boardIdx, all_pins, storeIdx, processed_pins, dbPins, failCause>>
    /\ JobOnly

NextJob ==
    \/ ExecUpdateRunning
    \/ ExecInitScraper
    \/ ScrapeSetupDriver
    \/ ScrapeBoard
    \/ ScrapeReturn
    \/ ExecStorePin
    \/ ExecUpdateProgress
    \/ ExecMarkCompleted
    \/ ExecCleanup
    \/ ExecMarkFailed

JobInit == InitJob /\ IdlePipe /\ IdleAuto /\ IdleCrawl /\ IdlePool /\ IdleCreate /\ IdleCron /\ IdleDl

SpecJob == JobInit /\ [][NextJob]_vars

(***************************************************************************)
(* DELETE /jobs/{job_id} (api/main.py delete_job, MongoDB.delete_job),     *)
(* called once for the job at any time after it was created: nothing in    *)
(* the endpoint looks at the status of the job, and the background task    *)
(* of execute_scraping_job goes on between the two awaits of delete_job.   *)
(***************************************************************************)
\* database.py line 156: db.pins.delete_many({"job_id": job_id}).
delete_many(pins, job_id) == SelectSeq(pins, LAMBDA d : d.job_id # job_id)

DelOnly == UNCHANGED <<pipeVars, autoVars, crawlVars, poolVars, createVars, cronVars, dlVars>>

\* database.py lines 154-156 and 164-166: the pins of the job are deleted;
\* an exception is logged and False returned.
DeleteJobPins ==
    /\ dpc = "idle"
    /\ \E dbOk \in BOOLEAN :
         IF dbOk
         THEN dbPins' = delete_many(dbPins, ThisJob) /\ dpc' = "pins_deleted"
         ELSE dpc' = "returned_false" /\ UNCHANGED dbPins
    /\ UNCHANGED <<job, jpc, boardIdx, all_pins, storeIdx, processed_pins, failCause,
                   statusLog>>
    /\ DelOnly

\* database.py lines 158-166: the job document is deleted and
\* deleted_count > 0 returned.
DeleteJobDoc ==
    /\ dpc = "pins_deleted"
    /\ \E dbOk \in BOOLEAN :
         IF dbOk
         THEN /\ job' = [job EXCEPT !.stored = FALSE]
              /\ dpc' = IF job.stored THEN "returned_true" ELSE "returned_false"
         ELSE dpc' = "returned_false" /\ UNCHANGED job
    /\ UNCHANGED <<jpc, boardIdx, all_pins, storeIdx, processed_pins, dbPins, failCause,
                   statusLog>>
    /\ DelOnly

NextDelete ==
    \/ NextJob
    \/ DeleteJobPins
    \/ DeleteJobDoc

SpecDelete == JobInit /\ [][NextDelete]_vars

(***************************************************************************)
(* C1.  Job status transitions are monotonic (pending, then running, then *)
(* one of completed, failed, cancelled): once the stored status of a job   *)
(* is completed, failed or cancelled, no later step of                     *)
(* execute_scraping_job, its exception handler included, replaces it by    *)
(* another status.                                                         *)
(***************************************************************************)
C1_StatusMonotonic ==
    [][job.status \in TerminalStatus => job'.status = job.status]_vars

(***************************************************************************)
(* C5.  A running job is stored as FAILED only after a setup failure       *)
(* (config or scraper construction, driver start); a failure of one board, *)
(* one pin or a per-board save never makes the job FAILED.                 *)
(***************************************************************************)
WasRunning == \E i \in 1..Len(statusLog) : statusLog[i] = RUNNING

C5_FailedOnlyOnSetup ==
    (WasRunning /\ job.status = FAILED) => failCause = "setup"

(***************************************************************************)
(* production_pipeline.py ProductionPinterestPipeline with database.py     *)
(* PinterestDatabase.  scraper.scrape_board is called through the object   *)
(* initialize_scraper builds; the pipeline reads its result as a dict with *)
(* an 'error' key or a 'pins' list, or catches what it raises.             *)
(***************************************************************************)
max_retries == 3

\* load_target_boards: the board_urls of board_urls.json.
board_urls == <<1, 2>>

RunIds == {1, 2}

\* The pins lists scrape_board may return for a board (ids may repeat).
FeedLists == UNION { [1..n -> PinIds] : n \in {0, 1, 2} }

ids_of(r) == { r[i] : i \in 1..Len(r) }

\* add_pin with the plain INSERT a missing OR IGNORE would leave.
add_pin_plain_insert(r, pid, dbOk) ==
    IF dbOk THEN Append(r, pid) ELSE r

\* PinterestDatabase.add_pin: INSERT OR IGNORE into a table whose pin_id is
\* UNIQUE; an sqlite error is printed and swallowed (return None).
add_pin(r, pid, dbOk) ==
    IF dbOk /\ pid \notin ids_of(r) THEN Append(r, pid) ELSE r

\* lines 122-129: save_pin for each new pin, in order; failSet are the
\* positions whose INSERT fails.
RECURSIVE save_new_pins(_, _, _, _)
save_new_pins(r, pins, failSet, i) ==
    IF i > Len(pins) THEN r
    ELSE save_new_pins(add_pin(r, pins[i], i \notin failSet), pins, failSet, i + 1)

\* line 113: new_pins = [pin for pin in all_pins if pin_id not in existing].
filter_new_pins(all, existing) ==
    SelectSeq(all, LAMBDA p : p \notin existing)

\* The result of a successful attempt reporting the attempt number instead
\* of the number of retries.
success_result_counts_attempt(b, all, new, rc) ==
    [board_url |-> b, success |-> TRUE, pins_found |-> Len(all),
     new_pins |-> Len(new), pins_saved |-> Len(new), retry_count |-> rc + 1]

\* lines 151-159: the result returned by a successful attempt (saved_count
\* is incremented for every new pin, save_pin never raises).
success_result(b, all, new, rc) ==
    [board_url |-> b, success |-> TRUE, pins_found |-> Len(all),
     new_pins |-> Len(new), pins_saved |-> Len(new), retry_count |-> rc]

\* lines 171-180: the result returned when all retries failed.
failure_result(b) ==
    [board_url |-> b, success |-> FALSE, pins_found |-> 0,
     new_pins |-> 0, pins_saved |-> 0, retry_count |-> max_retries]

\* lines 104 and 163: retry_count += 1.
retry_after_failure(rc) == rc + 1

\* lines 105-108 (an 'error' result) and 164-167 (an exception): the sleep
\* before the next attempt, none after the last one.
wait_after_failure(log, rc, base) ==
    IF rc < max_retries THEN Append(log, base * rc) ELSE log

\* json.dump accepts these types and raises TypeError for any other.
JsonTypes == {"int", "float", "str", "bool", "None", "list", "dict"}

\* __init__ lines 25-32 and run_production_pipeline lines 222-227: the types
\* of the values of self.stats when the report is written.
stats_types ==
    [total_pins_scraped |-> "int", total_images_downloaded |-> "int",
     total_boards_processed |-> "int", success_rate |-> "float",
     start_time |-> "datetime", boards_stats |-> "list"]

\* generate_final_report lines 284-294: json.dump(report_data) with
\* report_data['stats'] = self.stats.
json_dump_ok(types) == \A k \in DOMAIN types : types[k] \in JsonTypes

InitPipe ==
    /\ rows = <<>>
    /\ run = 1
    /\ ppc = "start"
    /\ feed \in [1..Len(board_urls) -> FeedLists]
    /\ board = 0
    /\ retry_count = 0
    /\ existing_pin_ids = {}
    /\ boards_stats = <<>>
    /\ runResult = <<>>
    /\ attemptLog = <<>>
    /\ waitLog = <<>>
    /\ inserted = [r \in RunIds |-> {}]
    /\ saveFailed = FALSE

\* What a run returned, whether its setup succeeded and whether every board
\* was scraped successfully in it.
Returned(value, setup) ==
    Append(runResult,
           [returned |-> value, setup_ok |-> setup,
            all_scraped |-> /\ Len(boards_stats) = Len(board_urls)
                            /\ \A b \in 1..Len(boards_stats) : boards_stats[b].success])

\* run_production_pipeline lines 187-190 with initialize_scraper.
PipeInitializeScraper ==
    /\ ppc = "start"
    /\ \E ok \in BOOLEAN :
         IF ok THEN ppc' = "load" /\ UNCHANGED runResult
         ELSE ppc' = "done" /\ runResult' = Returned(FALSE, FALSE)
    /\ UNCHANGED <<rows, run, feed, board, retry_count, existing_pin_ids,
                   boards_stats, attemptLog, waitLog, inserted, saveFailed>>
    /\ PipeOnly

\* lines 192-196 with load_target_boards ([] when the file cannot be read).
PipeLoadTargetBoards ==
    /\ ppc = "load"
    /\ \E ok \in BOOLEAN :
         IF ok THEN ppc' = "board" /\ board' = 1 /\ UNCHANGED runResult
         ELSE ppc' = "done" /\ runResult' = Returned(FALSE, FALSE) /\ UNCHANGED board
    /\ UNCHANGED <<rows, run, feed, retry_count, existing_pin_ids,
                   boards_stats, attemptLog, waitLog, inserted, saveFailed>>
    /\ PipeOnly

\* scrape_board_with_resilience lines 89-95.
PipeBeginBoard ==
    /\ ppc = "board"
    /\ existing_pin_ids' = ids_of(rows)
    /\ retry_count' = 0
    /\ waitLog' = <<>>
    /\ attemptLog' = <<>>
    /\ ppc' = "attempt"
    /\ UNCHANGED <<rows, run, feed, board, boards_stats, runResult, inserted, saveFailed>>
    /\ PipeOnly

\* lines 97-109: an attempt whose result carries 'error'.
PipeAttemptError ==
    /\ ppc = "attempt"
    /\ retry_count < max_retries
    /\ retry_count' = retry_after_failure(retry_count)
    /\ waitLog' = wait_after_failure(waitLog, retry_count', 30)
    /\ attemptLog' = Append(attemptLog, "failed")
    /\ UNCHANGED <<rows, run, ppc, feed, board, existing_pin_ids, boards_stats,
                   runResult, inserted, saveFailed>>
    /\ PipeOnly

\* lines 97-100 and 161-167: an attempt in which scrape_board raises.
PipeAttemptRaises ==
    /\ ppc = "attempt"
    /\ retry_count < max_retries
    /\ retry_count' = retry_after_failure(retry_count)
    /\ waitLog' = wait_after_failure(waitLog, retry_count', 60)
    /\ attemptLog' = Append(attemptLog, "failed")
    /\ UNCHANGED <<rows, run, ppc, feed, board, existing_pin_ids, boards_stats,
                   runResult, inserted, saveFailed>>
    /\ PipeOnly

\* lines 97-159: an attempt that returns the pins of the board; the new ones
\* are saved and the result of the board is returned.
PipeAttemptSucceeds ==
    /\ ppc = "attempt"
    /\ retry_count < max_retries
    /\ LET all == feed[board]
           new == filter_new_pins(all, existing_pin_ids)
       IN \E failSet \in SUBSET (1..Len(new)) :
            /\ rows' = save_new_pins(rows, new, failSet, 1)
            /\ inserted' = [inserted EXCEPT ![run] = @ \cup (ids_of(rows') \ ids_of(rows))]
            /\ saveFailed' = (saveFailed \/ failSet # {})
            /\ boards_stats' = Append(boards_stats,
                                       success_result(board, all, new, retry_count))
    /\ attemptLog' = Append(attemptLog, "ok")
    /\ ppc' = "stats"
    /\ UNCHANGED <<run, feed, board, retry_count, existing_pin_ids, runResult, waitLog>>
    /\ PipeOnly

\* lines 169-180: all retries failed.
PipeGiveUp ==
    /\ ppc = "attempt"
    /\ ~(retry_count < max_retries)
    /\ boards_stats' = Append(boards_stats, failure_result(board))
    /\ ppc' = "stats"
    /\ UNCHANGED <<rows, run, feed, board, retry_count, existing_pin_ids, runResult,
                   attemptLog, waitLog, inserted, saveFailed>>
    /\ PipeOnly

\* run_production_pipeline lines 208-219: the statistics of the board, then
\* the next board after the 30 second delay, or the end of the loop.
PipeNextBoard ==
    /\ ppc = "stats"
    /\ IF board < Len(board_urls)
       THEN board' = board + 1 /\ ppc' = "board"
       ELSE ppc' = "report" /\ UNCHANGED board
    /\ UNCHANGED <<rows, run, feed, retry_count, existing_pin_ids, boards_stats,
                   runResult, attemptLog, waitLog, inserted, saveFailed>>
    /\ PipeOnly

\* lines 221-238: generate_final_report, then return True; an exception of
\* the report reaches except Exception: return False.
PipeFinalReport ==
    /\ ppc = "report"
    /\ runResult' = Returned(json_dump_ok(stats_types), TRUE)
    /\ ppc' = "done"
    /\ UNCHANGED <<rows, run, feed, board, retry_count, existing_pin_ids, boards_stats,
                   attemptLog, waitLog, inserted, saveFailed>>
    /\ PipeOnly

\* The pipeline is started again (main, a new process): only the sqlite
\* file survives.
PipeNextRun ==
    /\ ppc = "done"
    /\ run + 1 \in RunIds
    /\ run' = run + 1
    /\ ppc' = "start"
    /\ board' = 0
    /\ retry_count' = 0
    /\ existing_pin_ids' = {}
    /\ boards_stats' = <<>>
    /\ attemptLog' = <<>>
    /\ waitLog' = <<>>
    /\ UNCHANGED <<rows, feed, runResult, inserted, saveFailed>>
    /\ PipeOnly

NextPipe ==
    \/ PipeInitializeScraper
    \/ PipeLoadTargetBoards
    \/ PipeBeginBoard
    \/ PipeAttemptError
    \/ PipeAttemptRaises
    \/ PipeAttemptSucceeds
    \/ PipeGiveUp
    \/ PipeNextBoard
    \/ PipeFinalReport
    \/ PipeNextRun

\* The api job before create_scraping_job.
IdleJob ==
    /\ job = create_scraping_job(FALSE)
    /\ jpc = "idle"
    /\ boardIdx = 0
    /\ all_pins = <<>>
    /\ storeIdx = 0
    /\ processed_pins = 0
    /\ dbPins = <<>>
    /\ failCause = "none"
    /\ statusLog = <<>>
    /\ dpc = "idle"

PipeInit == InitPipe /\ IdleJob /\ IdleAuto /\ IdleCrawl /\ IdlePool /\ IdleCreate /\ IdleCron /\ IdleDl

SpecPipe == PipeInit /\ [][NextPipe]_vars

(***************************************************************************)
(* C2.  Idempotent ingestion: two runs of the pipeline against boards that *)
(* return the same pin ids both times leave exactly one row per distinct   *)
(* pin id (N rows, not 2N), and the second run inserts nothing.  The pins  *)
(* table never holds two rows with the same pin_id.                        *)
(***************************************************************************)
NoDuplicateRows ==
    \A i, j \in 1..Len(rows) : rows[i] = rows[j] => i = j

FeedIds == UNION { ids_of(feed[b]) : b \in 1..Len(board_urls) }

\* Both runs got the pins of every board and no INSERT failed.
BothRunsIngested ==
    /\ Len(runResult) = 2
    /\ runResult[1].all_scraped
    /\ runResult[2].all_scraped
    /\ ~saveFailed

C2_IdempotentIngestion ==
    /\ NoDuplicateRows
    /\ BothRunsIngested =>
         /\ ids_of(rows) = FeedIds
         /\ Len(rows) = Cardinality(FeedIds)
         /\ inserted[2] = {}

C2_Witness ==
    /\ BothRunsIngested
    /\ Len(rows) = 2
    /\ \E b \in 1..Len(board_urls) : Len(feed[b]) = 2 /\ feed[b][1] = feed[b][2]

(***************************************************************************)
(* C3.  Retry then success: a board whose crawl fails max_retries - 1      *)
(* times and then succeeds is reported as success with retry_count =       *)
(* max_retries - 1, and no crawl attempt follows the successful one.       *)
(***************************************************************************)
FailedThenOk ==
    /\ Len(attemptLog) = max_retries
    /\ \A i \in 1..(max_retries - 1) : attemptLog[i] = "failed"
    /\ attemptLog[max_retries] = "ok"

\* The result of the board whose attempts attemptLog holds.
LastResult == boards_stats[Len(boards_stats)]

C3_RetryThenSuccess ==
    /\ FailedThenOk =>
         /\ Len(boards_stats) > 0
         /\ LastResult.board_url = board_urls[IF ppc = "board" THEN board - 1 ELSE board]
         /\ LastResult.success
         /\ LastResult.retry_count = max_retries - 1
    /\ \A i \in 1..Len(attemptLog) : attemptLog[i] = "ok" => i = Len(attemptLog)

C3_Witness ==
    FailedThenOk /\ ppc = "stats" /\ board = 2

(***************************************************************************)
(* C4.  Degraded completion: a board whose crawl fails max_retries times   *)
(* is marked failed, every later board is still attempted, and the run as  *)
(* a whole ends as a success provided its setup succeeded.                 *)
(***************************************************************************)
AllAttemptsFailed ==
    /\ Len(attemptLog) = max_retries
    /\ \A i \in 1..max_retries : attemptLog[i] = "failed"

C4_DegradedCompletion ==
    /\ (ppc = "stats" /\ AllAttemptsFailed) => ~boards_stats[board].success
    /\ ppc = "report" => Len(boards_stats) = Len(board_urls)
    /\ \A r \in 1..Len(runResult) : runResult[r].setup_ok => runResult[r].returned

(***************************************************************************)
(* C10.  Partial enrichment failure: a pin whose image was downloaded but  *)
(* whose classification failed is persisted with no analysis payload and   *)
(* with a provider-error marker: every document the job has stored for     *)
(* such a pin has no payload and carries the marker.                       *)
(***************************************************************************)
ClassificationFailed(pin) ==
    pin.local_image_path # "None" /\ pin.classified /\ pin.ai_analysis = "None"

HasProviderError(doc) == "provider_error" \in DOMAIN doc

C10_PartialEnrichmentPersisted ==
    \A i \in 1..storeIdx :
      ClassificationFailed(all_pins[i]) =>
        \A k \in 1..Len(dbPins) :
          (dbPins[k].pin_id = all_pins[i].pin_id /\ dbPins[k].job_id = ThisJob) =>
            (dbPins[k].ai_analysis = "None" /\ HasProviderError(dbPins[k]))

(***************************************************************************)
(* automated_scraper.py AutomatedPinterestScraper.  run() is one asyncio   *)
(* task; stop() is a plain method another task or a signal handler calls, *)
(* so it takes effect while run() is suspended in one of its awaits: the  *)
(* asyncio.sleep of analyze_with_ai, the sleep between two boards and the  *)
(* sleep between two cycles.  Each action is the code between two awaits.  *)
(***************************************************************************)
RECURSIVE SortedSeq(_)
SortedSeq(S) ==
    IF S = {} THEN <<>>
    ELSE LET p == CHOOSE x \in S : \A y \in S : x <= y
         IN <<p>> \o SortedSeq(S \ {p})

\* _load_board_urls lines 51-62: the boards of DEFAULT_BOARD_URLS.
auto_board_urls == <<1, 2>>

\* _save_scraped_pins lines 79-86: the text json.dump writes for a set of
\* ids, when all of it reaches the file.
tracker_text(pins) == [ids |-> SortedSeq(pins), complete |-> TRUE]

\* The file a write leaves when only the first k ids of the text reach it:
\* open(..., 'w') has truncated the file and the text has no end.
torn_text(pins, k) == [ids |-> SubSeq(SortedSeq(pins), 1, k), complete |-> FALSE]

\* _load_scraped_pins lines 64-75: the ids of the file; a text json.load
\* cannot parse is logged and the empty set is returned.
load_scraped_pins(file) == IF file.complete THEN ids_of(file.ids) ELSE {}

\* _save_scraped_pins lines 77-89.  The whole text is written; or open()
\* fails and the file is as before; or the write stops after open() has
\* truncated the file (a text cut short anywhere does not parse: the one cut
\* before its first id stands for all of them).  The exception is logged,
\* nothing is returned.
save_outcomes(file, pins) ==
    {tracker_text(pins), file, torn_text(pins, 0)}

\* A scrape_board that returns every pin it finds.
unscraped_all(found, scraped) == found

\* scrape_board lines 115-129: the pins found that are not in scraped_pins.
unscraped(found, scraped) == found \ scraped

\* __init__ lines 35-41: the tracker file is loaded, running is False.
InitAuto ==
    /\ apc = "init"
    /\ running = FALSE
    /\ aBoard = 0
    /\ new_pins = <<>>
    /\ procIdx = 0
    /\ \E S \in SUBSET PinIds : tracker = tracker_text(S)
    /\ scraped_pins = load_scraped_pins(tracker)
    /\ dataset = <<>>
    /\ cycle = 0
    /\ stopRequested = FALSE
    /\ lateDiscovered = {}
    /\ lateSteps = {}
    /\ restarts = 0
    /\ durable = scraped_pins
    /\ processLog = <<>>
    /\ skipped = {}

\* The kinds of work that begin in a step taken after stop().
Late(kinds) == IF stopRequested THEN lateSteps \cup kinds ELSE lateSteps

\* run line 248: self.running = True.
AutoRun ==
    /\ apc = "init"
    /\ running' = TRUE
    /\ apc' = "while"
    /\ UNCHANGED <<aBoard, new_pins, procIdx, scraped_pins, dataset, tracker, cycle,
                   stopRequested, lateDiscovered, lateSteps,
                   restarts, durable, processLog, skipped>>
    /\ AutoOnly

\* run lines 251-253 and 263-265: the loop condition, read once per cycle.
AutoWhile ==
    /\ apc = "while"
    /\ IF running
       THEN apc' = "scrape" /\ aBoard' = 1
       ELSE apc' = "stopped" /\ UNCHANGED aBoard
    /\ UNCHANGED <<running, new_pins, procIdx, scraped_pins, dataset, tracker, cycle,
                   stopRequested, lateDiscovered, lateSteps,
                   restarts, durable, processLog, skipped>>
    /\ AutoOnly

\* A board scrape that leaves the ids to be added once the pin is saved.
add_discovered_never(scraped, fresh) == scraped

\* scrape_board line 129: self.scraped_pins.add(pin_id), as soon as the pin
\* is found new.
add_discovered(scraped, fresh) == scraped \cup fresh

\* scrape_board lines 96-140 and process_new_pins lines 183-192: the pins of
\* the board that are not in scraped_pins are returned and added to it; an
\* empty list ends process_new_pins at once, otherwise the first pin enters
\* analyze_with_ai.
AutoScrapeBoard ==
    /\ apc = "scrape"
    /\ \E found \in SUBSET PinIds :
         LET fresh == unscraped(found, scraped_pins)
         IN /\ new_pins' = SortedSeq(fresh)
            /\ skipped' = skipped \cup (found \ fresh)
            /\ scraped_pins' = add_discovered(scraped_pins, fresh)
            /\ lateDiscovered' = IF stopRequested THEN lateDiscovered \cup fresh
                                 ELSE lateDiscovered
            /\ lateSteps' = Late(IF fresh = {} THEN {"pagination"}
                                 ELSE {"pagination", "enrichment"})
            /\ apc' = IF fresh = {} THEN "delay" ELSE "analyze"
    /\ procIdx' = 0
    /\ UNCHANGED <<running, aBoard, dataset, tracker, cycle, stopRequested,
                   restarts, durable, processLog>>
    /\ AutoOnly

\* A loop that leaves after its first pin.
pins_left_never(done, pins) == FALSE

\* process_new_pins line 190: for pin_data in new_pins goes on while a pin
\* of the list has not been taken.
pins_left(done, pins) == done < Len(pins)

\* process_new_pins lines 190-204 with analyze_with_ai and save_pin_data
\* (which swallows its errors): the pin is analysed and written; after the
\* last pin the tracker is saved (errors swallowed too), otherwise the next
\* pin enters analyze_with_ai.
AutoProcessPin ==
    /\ apc = "analyze"
    /\ procIdx < Len(new_pins)
    /\ procIdx' = procIdx + 1
    /\ \E saveOk \in BOOLEAN :
         dataset' = IF saveOk THEN Append(dataset, new_pins[procIdx + 1]) ELSE dataset
    /\ processLog' = Append(processLog, [pin |-> new_pins[procIdx + 1], cycle |-> cycle])
    /\ IF ~pins_left(procIdx + 1, new_pins)
       THEN /\ tracker' \in save_outcomes(tracker, scraped_pins)
            /\ durable' = IF tracker' = tracker_text(scraped_pins)
                           THEN scraped_pins ELSE durable
            /\ apc' = "delay"
            /\ UNCHANGED lateSteps
       ELSE /\ lateSteps' = Late({"enrichment"})
            /\ UNCHANGED <<tracker, durable, apc>>
    /\ UNCHANGED <<running, aBoard, new_pins, scraped_pins, cycle, stopRequested,
                   lateDiscovered, restarts, skipped>>
    /\ AutoOnly

\* scrape_cycle lines 211-231: after the sleep of 2 seconds the next board,
\* or the end of the cycle.
AutoBoardDelay ==
    /\ apc = "delay"
    /\ IF aBoard < Len(auto_board_urls)
       THEN aBoard' = aBoard + 1 /\ apc' = "scrape"
       ELSE apc' = "sleep" /\ UNCHANGED aBoard
    /\ UNCHANGED <<running, new_pins, procIdx, scraped_pins, dataset, tracker, cycle,
                   stopRequested, lateDiscovered, lateSteps,
                   restarts, durable, processLog, skipped>>
    /\ AutoOnly

\* run lines 255-258: the sleep of check_interval seconds between two cycles.
AutoSleep ==
    /\ apc = "sleep"
    /\ cycle < MaxCycles
    /\ cycle' = cycle + 1
    /\ apc' = "while"
    /\ UNCHANGED <<running, aBoard, new_pins, procIdx, scraped_pins, dataset, tracker,
                   stopRequested, lateDiscovered, lateSteps,
                   restarts, durable, processLog, skipped>>
    /\ AutoOnly

\* stop lines 267-269, called while run() is suspended.
AutoStop ==
    /\ apc \in {"analyze", "delay", "sleep"}
    /\ running
    /\ running' = FALSE
    /\ stopRequested' = TRUE
    /\ UNCHANGED <<apc, aBoard, new_pins, procIdx, scraped_pins, dataset, tracker, cycle,
                   lateDiscovered, lateSteps, restarts, durable, processLog, skipped>>
    /\ AutoOnly

\* The service ends (it is stopped, killed or crashes, at any point) and is
\* started again: main lines 271-279 and __init__ lines 35-41.  Only the
\* files remain.
AutoRestart ==
    /\ apc # "init"
    /\ restarts = 0
    /\ restarts' = restarts + 1
    /\ scraped_pins' = load_scraped_pins(tracker)
    /\ apc' = "init"
    /\ running' = FALSE
    /\ aBoard' = 0
    /\ new_pins' = <<>>
    /\ procIdx' = 0
    /\ cycle' = 0
    /\ stopRequested' = FALSE
    /\ lateDiscovered' = {}
    /\ lateSteps' = {}
    /\ processLog' = <<>>
    /\ skipped' = {}
    /\ UNCHANGED <<dataset, tracker, durable>>
    /\ AutoOnly

NextAuto ==
    \/ AutoRun
    \/ AutoWhile
    \/ AutoScrapeBoard
    \/ AutoProcessPin
    \/ AutoBoardDelay
    \/ AutoSleep
    \/ AutoStop
    \/ AutoRestart

AutoInit == InitAuto /\ IdleJob /\ IdlePipe /\ IdleCrawl /\ IdlePool /\ IdleCreate /\ IdleCron /\ IdleDl

SpecAuto == AutoInit /\ [][NextAuto]_vars

\* One run of the service, from its start until it stops.
NextRun ==
    \/ AutoRun
    \/ AutoWhile
    \/ AutoScrapeBoard
    \/ AutoProcessPin
    \/ AutoBoardDelay
    \/ AutoSleep
    \/ AutoStop

SpecRun == AutoInit /\ [][NextRun]_vars

(***************************************************************************)
(* C6.  Cancellation: once stop has been requested in the middle of a run, *)
(* no new pagination step (the check of another board) and no new          *)
(* enrichment task (the analysis of another pin) is started, and no pin    *)
(* discovered after the request is persisted.                              *)
(***************************************************************************)
C6_StopHaltsWork ==
    stopRequested =>
      /\ lateSteps = {}
      /\ ids_of(dataset) \cap lateDiscovered = {}

(***************************************************************************)
(* pinterest_scraper.py PinterestScraper.extract_board_pins.  A board is a *)
(* paginated source rendered by the browser: it serves source.pages pages  *)
(* of source.page_size pins with distinct ids and serves its last page     *)
(* again for every later request.  Each scroll requests the next page; the *)
(* pins of a page served again are either rendered again (more elements    *)
(* with ids already on the page) or not rendered at all.                   *)
(***************************************************************************)
max_scroll_attempts == 20
default_max_pins == 100

\* The pin ids of the k-th page the board serves.
Page(src, k) ==
    LET n == IF k <= src.pages THEN k ELSE src.pages
    IN [j \in 1..src.page_size |-> (n - 1) * src.page_size + j]

\* A slow board has not rendered its second page yet when the elements are
\* counted after the first scroll.
Sources ==
    [pages : 0..5, page_size : {2, 10}, renders_repeats : BOOLEAN, slow : BOOLEAN]

\* lines 301-313: the elements whose pin_id is not in pins_data yet are
\* appended, in the order of the page, until pins_data holds limit pins.
collect_pins(data, elements, limit) ==
    LET firsts == { i \in 1..Len(elements) :
                      /\ elements[i] \notin ids_of(data)
                      /\ \A j \in 1..(i - 1) : elements[j] # elements[i] }
        room == IF limit > Len(data) THEN limit - Len(data) ELSE 0
        taken == { i \in firsts : Cardinality({ j \in firsts : j < i }) < room }
        nth(k) == CHOOSE i \in taken : Cardinality({ j \in taken : j < i }) = k - 1
    IN data \o [k \in 1..Cardinality(taken) |-> elements[nth(k)]]

\* line 316: window.scrollTo makes the board serve its next page.
scroll_page(elements, src, served) ==
    IF src.slow /\ served = 1 THEN elements
    ELSE IF served < src.pages \/ src.renders_repeats
    THEN elements \o Page(src, served + 1)
    ELSE elements

\* line 322: the scroll loop stops when the scroll added no element.
no_new_pins_loaded(new_pin_count, pin_elements) ==
    new_pin_count = Len(pin_elements)

\* lines 327 and 331: extract_board_pins hands a list to its caller, on
\* every path; no exception leaves it.
returned(pins) == [raised |-> FALSE, pins |-> pins]

\* extract_board_pins is called for a board.
InitCrawl ==
    /\ cpc = "open"
    /\ source \in Sources
    /\ loaded = 0
    /\ dom = <<>>
    /\ pins_data = <<>>
    /\ scroll_attempts = 0
    /\ max_pins \in {4, default_max_pins}
    /\ result = returned(<<>>)
    /\ crawl_log = {}
    /\ broke = FALSE
    /\ scrolled_at_limit = FALSE
    /\ no_growth_run = 0

\* lines 283-295 and 329-331: the board is opened and the first pin element
\* is waited for.  A page that cannot be fetched raises in driver.get, a
\* board without pins raises the timeout of WebDriverWait; the except
\* clause logs either and returns [].
CrawlOpen ==
    /\ cpc = "open"
    /\ \E fetched \in BOOLEAN :
         IF fetched /\ source.pages > 0
         THEN /\ dom' = Page(source, 1)
              /\ loaded' = 1
              /\ cpc' = "loop"
              /\ UNCHANGED <<result, crawl_log, broke>>
         ELSE /\ result' = returned(<<>>)
              /\ crawl_log' = crawl_log \cup {"Failed to extract pins from board"}
              /\ broke' = ~fetched
              /\ cpc' = "done"
              /\ UNCHANGED <<dom, loaded>>
    /\ UNCHANGED <<source, pins_data, scroll_attempts, max_pins, scrolled_at_limit,
                   no_growth_run>>
    /\ CrawlOnly

\* lines 297-327: one iteration of the while loop; the break of line 324
\* goes to the return of line 327.
CrawlScroll ==
    /\ cpc = "loop"
    /\ Len(pins_data) < max_pins /\ scroll_attempts < max_scroll_attempts
    /\ pins_data' = collect_pins(pins_data, dom, max_pins)
    /\ dom' = scroll_page(dom, source, loaded)
    /\ scrolled_at_limit' = (scrolled_at_limit \/ Len(pins_data') >= max_pins)
    /\ loaded' = loaded + 1
    /\ scroll_attempts' = scroll_attempts + 1
    /\ no_growth_run' = IF Len(dom') = Len(dom) THEN no_growth_run + 1 ELSE 0
    /\ IF no_new_pins_loaded(Len(dom'), dom)
       THEN /\ cpc' = "done"
            /\ crawl_log' = crawl_log \cup {"No new pins loaded, stopping scroll",
                                            "Extracted pins from board"}
            /\ result' = returned(pins_data')
       ELSE /\ cpc' = "loop"
            /\ UNCHANGED <<crawl_log, result>>
    /\ UNCHANGED <<source, max_pins, broke>>
    /\ CrawlOnly

\* lines 297 and 326-327: the loop condition fails and pins_data is returned.
CrawlReturn ==
    /\ cpc = "loop"
    /\ ~(Len(pins_data) < max_pins /\ scroll_attempts < max_scroll_attempts)
    /\ cpc' = "done"
    /\ crawl_log' = crawl_log \cup {"Extracted pins from board"}
    /\ result' = returned(pins_data)
    /\ UNCHANGED <<source, loaded, dom, pins_data, scroll_attempts, max_pins,
                   broke, scrolled_at_limit, no_growth_run>>
    /\ CrawlOnly

\* lines 298, 316, 321 and 329-331: the page cannot be read or scrolled any
\* more (the request fails, the browser session is lost); the exception
\* leaves the loop, is logged, and [] is returned in place of pins_data.
CrawlFail ==
    /\ cpc = "loop"
    /\ Len(pins_data) < max_pins /\ scroll_attempts < max_scroll_attempts
    /\ broke' = TRUE
    /\ crawl_log' = crawl_log \cup {"Failed to extract pins from board"}
    /\ result' = returned(<<>>)
    /\ cpc' = "done"
    /\ UNCHANGED <<source, loaded, dom, pins_data, scroll_attempts, max_pins,
                   scrolled_at_limit, no_growth_run>>
    /\ CrawlOnly

NextCrawl ==
    \/ CrawlOpen
    \/ CrawlScroll
    \/ CrawlReturn
    \/ CrawlFail

CrawlInit == InitCrawl /\ IdleJob /\ IdlePipe /\ IdleAuto /\ IdlePool /\ IdleCreate /\ IdleCron /\ IdleDl

SpecCrawl == CrawlInit /\ [][NextCrawl]_vars

(***************************************************************************)
(* C7.  Termination of the crawl: for a board with 5 pages of 10 unique    *)
(* pins that afterwards repeats page 5 forever, and a pin limit above 50,  *)
(* extract_board_pins returns exactly the 50 distinct pins and stops       *)
(* within 5 + 3 pagination steps.                                          *)
(***************************************************************************)
FivePagesOfTen == source.pages = 5 /\ source.page_size = 10 /\ ~source.slow

C7_CrawlTermination ==
    (cpc = "done" /\ ~broke /\ FivePagesOfTen /\ max_pins > 50) =>
      /\ Len(pins_data) = 50
      /\ ids_of(pins_data) = 1..50
      /\ scroll_attempts <= 5 + 3

(***************************************************************************)
(* pinterest_scraper.py scrape_boards lines 537-547: the pins of one board *)
(* are submitted to a ThreadPoolExecutor(max_workers), one future per pin, *)
(* each running process_pin; the main thread collects the futures as they  *)
(* complete.  Time is counted in seconds since the last outbound request   *)
(* (an image GET or a generate_content call), up to request_delay.         *)
(***************************************************************************)
request_delay == 2

Futures == 1..pool_size

\* The futures a worker thread is running.
InFlight ==
    { i \in Futures : stage[i] \in {"download", "downloading", "analysis",
                                    "analyzing", "build"} }

\* An executor that lets one thread more than max_workers run.
can_start_one_more(in_flight, workers) == Cardinality(in_flight) < workers + 1

\* line 538: ThreadPoolExecutor(max_workers=...) runs a queued future only
\* on one of its max_workers threads.
can_start(in_flight, workers) == Cardinality(in_flight) < workers

\* process_pin lines 494-497: the analysis runs when a path came back and
\* AI is enabled; otherwise the PinData is built.
after_download(image_path_ok) ==
    IF image_path_ok /\ ai_enabled THEN "analysis" ELSE "build"

\* A loop over as_completed without the try: the exception of one future
\* leaves the loop, and the futures not yet collected never are.
future_raised_uncaught(st, i) ==
    [j \in DOMAIN st |-> IF st[j] = "collected" THEN "collected" ELSE "abandoned"]

\* scrape_boards lines 542-546: the exception future.result() re-raises is
\* caught and logged inside the loop, which goes on to the next future.
future_raised(st, i) == [st EXCEPT ![i] = "collected"]

\* An outbound request is sent: the gap since the previous one is noted.
Outbound ==
    /\ gaps' = gaps \cup {idle_time}
    /\ idle_time' = 0

\* scrape_boards lines 530-538: extract_board_pins returned pins_data (its
\* last request is at least request_delay old) and the executor is created.
InitPool ==
    /\ pool_size \in 1..PoolItems
    /\ max_workers \in 1..MaxWorkers
    /\ ai_enabled \in BOOLEAN
    /\ stage = [i \in 1..pool_size |-> "queued"]
    /\ started = [i \in 1..pool_size |-> 0]
    /\ download_lock = 0
    /\ analysis_lock = 0
    /\ pool_pins = <<>>
    /\ pool_failed = 0
    /\ peak = 0
    /\ idle_time = request_delay
    /\ gaps = {}
    /\ pool_errors = {}

\* line 539 and download_image lines 402-413: a thread takes the oldest
\* queued future; an image that is already on disk is not requested again.
PoolStart ==
    /\ \E i \in Futures :
         /\ stage[i] = "queued"
         /\ \A j \in Futures : stage[j] = "queued" => i <= j
         /\ can_start(InFlight, max_workers)
         /\ started' = [started EXCEPT ![i] = @ + 1]
         /\ peak' = IF Cardinality(InFlight) + 1 > peak
                    THEN Cardinality(InFlight) + 1 ELSE peak
         /\ \E file_exists \in BOOLEAN :
              stage' = [stage EXCEPT ![i] = IF file_exists THEN after_download(TRUE)
                                            ELSE "download"]
    /\ UNCHANGED <<pool_size, max_workers, ai_enabled, download_lock, analysis_lock,
                   pool_pins, pool_failed, idle_time, gaps, pool_errors>>
    /\ PoolOnly

\* A lock that a thread could take while another thread holds it.
lock_free_always(holder) == TRUE

\* threading.Lock (lines 76-78), entered by the with statements of lines 421
\* and 449: a thread takes the lock only when no thread holds it.
lock_free(holder) == holder = 0

\* download_image lines 421-422: with self.download_lock: session.get.
PoolRequestImage ==
    /\ \E i \in Futures :
         /\ stage[i] = "download"
         /\ lock_free(download_lock)
         /\ download_lock' = i
         /\ stage' = [stage EXCEPT ![i] = "downloading"]
    /\ Outbound
    /\ UNCHANGED <<pool_size, max_workers, ai_enabled, peak, started, analysis_lock,
                   pool_pins, pool_failed, pool_errors>>
    /\ PoolOnly

\* download_image lines 423-442: the answer is checked and written; any
\* failure returns None.  The lock is released either way.
PoolImageDone ==
    /\ \E i \in Futures, ok \in BOOLEAN :
         /\ stage[i] = "downloading"
         /\ download_lock = i
         /\ download_lock' = 0
         /\ stage' = [stage EXCEPT ![i] = after_download(ok)]
         /\ pool_errors' = IF ok THEN pool_errors ELSE pool_errors \cup {"download"}
    /\ UNCHANGED <<pool_size, max_workers, ai_enabled, peak, started, analysis_lock,
                   pool_pins, pool_failed, idle_time, gaps>>
    /\ PoolOnly

\* analyze_image_with_ai lines 450-470: with self.analysis_lock:
\* generate_content.
PoolRequestAnalysis ==
    /\ \E i \in Futures :
         /\ stage[i] = "analysis"
         /\ lock_free(analysis_lock)
         /\ analysis_lock' = i
         /\ stage' = [stage EXCEPT ![i] = "analyzing"]
    /\ Outbound
    /\ UNCHANGED <<pool_size, max_workers, ai_enabled, peak, started, download_lock,
                   pool_pins, pool_failed, pool_errors>>
    /\ PoolOnly

\* analyze_image_with_ai lines 472-486: the answer is parsed, any failure
\* returns None.  The lock is released either way.
PoolAnalysisDone ==
    /\ \E i \in Futures, ok \in BOOLEAN :
         /\ stage[i] = "analyzing"
         /\ analysis_lock = i
         /\ analysis_lock' = 0
         /\ stage' = [stage EXCEPT ![i] = "build"]
         /\ pool_errors' = IF ok THEN pool_errors ELSE pool_errors \cup {"analysis"}
    /\ UNCHANGED <<pool_size, max_workers, ai_enabled, peak, started, download_lock,
                   pool_pins, pool_failed, idle_time, gaps>>
    /\ PoolOnly

\* process_pin lines 499-512: the PinData is built from the keys of pin_data
\* and returned; an exception ends the future instead.
PoolReturn ==
    /\ \E i \in Futures, ok \in BOOLEAN :
         /\ stage[i] = "build"
         /\ stage' = [stage EXCEPT ![i] = IF ok THEN "returned" ELSE "raised"]
         /\ pool_errors' = IF ok THEN pool_errors ELSE pool_errors \cup {"process_pin"}
    /\ UNCHANGED <<pool_size, max_workers, ai_enabled, peak, started, download_lock,
                   analysis_lock, pool_pins, pool_failed, idle_time, gaps>>
    /\ PoolOnly

\* scrape_boards lines 541-547: as_completed yields a finished future; its
\* pin is appended to all_pins, or its exception is logged.
PoolCollect ==
    /\ \E i \in Futures :
         /\ stage[i] \in {"returned", "raised"}
         /\ stage' = IF stage[i] = "returned"
                      THEN [stage EXCEPT ![i] = "collected"]
                      ELSE future_raised(stage, i)
         /\ IF stage[i] = "returned"
            THEN pool_pins' = Append(pool_pins, i) /\ UNCHANGED pool_failed
            ELSE pool_failed' = pool_failed + 1 /\ UNCHANGED pool_pins
    /\ UNCHANGED <<pool_size, max_workers, ai_enabled, peak, started, download_lock,
                   analysis_lock, idle_time, gaps, pool_errors>>
    /\ PoolOnly

\* A second passes without an outbound request.
PoolTick ==
    /\ idle_time < request_delay
    /\ idle_time' = idle_time + 1
    /\ UNCHANGED <<pool_size, max_workers, ai_enabled, peak, stage, started, download_lock,
                   analysis_lock, pool_pins, pool_failed, gaps, pool_errors>>
    /\ PoolOnly

NextPool ==
    \/ PoolStart
    \/ PoolRequestImage
    \/ PoolImageDone
    \/ PoolRequestAnalysis
    \/ PoolAnalysisDone
    \/ PoolReturn
    \/ PoolCollect
    \/ PoolTick

PoolInit == InitPool /\ IdleJob /\ IdlePipe /\ IdleAuto /\ IdleCrawl /\ IdleCreate /\ IdleCron /\ IdleDl

SpecPool == PoolInit /\ [][NextPool]_vars

(***************************************************************************)
(* C8.  Bounded concurrency and conservation: never more than max_workers  *)
(* pins are being processed at once, every pin is picked up by exactly one *)
(* worker task, and when the pool has finished the pins appended plus the  *)
(* futures that failed are the pins submitted, none of them twice.         *)
(***************************************************************************)
PoolFinished == \A i \in Futures : stage[i] = "collected"

C8_BoundedPool ==
    /\ Cardinality(InFlight) <= max_workers
    /\ \A i \in Futures : started[i] = IF stage[i] = "queued" THEN 0 ELSE 1
    /\ \A i, j \in 1..Len(pool_pins) : pool_pins[i] = pool_pins[j] => i = j
    /\ PoolFinished => Len(pool_pins) + pool_failed = pool_size

\* A pool with more pins than threads has finished after running on all its
\* threads at once, some futures having returned and some having raised.
C8_Witness ==
    /\ PoolFinished
    /\ 1 < max_workers /\ max_workers < pool_size
    /\ peak = max_workers
    /\ pool_failed > 0
    /\ Len(pool_pins) > 0

(***************************************************************************)
(* C9.  Pool-wide rate limiting: the gap between any two consecutive       *)
(* outbound requests of the pool (image downloads and classification       *)
(* calls) is at least request_delay.                                       *)
(***************************************************************************)
C9_PoolWideRateLimit ==
    \A g \in gaps : g >= request_delay

(***************************************************************************)
(* C11.  Media fetch failure drops the item: a pin whose image could not   *)
(* be fetched (download_image returned None) is not persisted and is not   *)
(* counted among the pins scraped: every document the job has stored has   *)
(* a local image, and total_pins_scraped counts only pins with one.        *)
(***************************************************************************)
FetchedPins == { i \in 1..Len(all_pins) : all_pins[i].local_image_path # "None" }

C11_FailedFetchDropped ==
    /\ \A k \in 1..Len(dbPins) :
         dbPins[k].job_id = ThisJob => dbPins[k].local_image_path # "None"
    /\ job.total_pins_scraped <= Cardinality(FetchedPins)

(***************************************************************************)
(* C12.  Dedup durability: whatever happens after a save of the tracker    *)
(* has succeeded (later saves that fail or are cut short, restarts), a     *)
(* load of the tracker file returns a superset of the ids scraped_pins     *)
(* held at the last save that succeeded.                                   *)
(***************************************************************************)
C12_DedupDurable ==
    durable \subseteq load_scraped_pins(tracker)

(***************************************************************************)
(* C13.  The dedup set grows monotonically: no step removes an id from the *)
(* ids the tracker file yields when loaded, and no step of a running       *)
(* process removes an id from scraped_pins.                                *)
(***************************************************************************)
C13_DedupMonotonic ==
    [][/\ load_scraped_pins(tracker) \subseteq load_scraped_pins(tracker')
       /\ apc' # "init" => scraped_pins \subseteq scraped_pins']_vars

(***************************************************************************)
(* C14.  Continuous mode: after a full pass over the boards the service    *)
(* sleeps and starts the next cycle with the same scraped_pins, and a pin  *)
(* processed in one cycle is never processed again, in that cycle or in a  *)
(* later one of the same run.                                              *)
(***************************************************************************)
ProcessedPins == { processLog[i].pin : i \in 1..Len(processLog) }

C14_NoReprocessing ==
    /\ \A i, j \in 1..Len(processLog) :
         processLog[i].pin = processLog[j].pin => i = j
    /\ ProcessedPins \subseteq scraped_pins
    /\ new_pins # <<>> => ids_of(new_pins) \subseteq scraped_pins

\* In a later cycle a board has shown a pin that an earlier cycle of the
\* run processed, and the pin was filtered out.
C14_Witness ==
    /\ cycle > 0
    /\ \E i \in 1..Len(processLog) :
         processLog[i].cycle < cycle /\ processLog[i].pin \in skipped
    /\ \E i \in 1..Len(processLog) : processLog[i].cycle = cycle

(***************************************************************************)
(* C15.  Progress reflects durable work: in every state the job's          *)
(* total_pins_scraped is at most the number of pins stored in db.pins for  *)
(* that job.                                                               *)
(***************************************************************************)
JobDocs == { k \in 1..Len(dbPins) : dbPins[k].job_id = ThisJob }

C15_ProgressCountsJobDocs ==
    job.total_pins_scraped <= Cardinality(JobDocs)

(***************************************************************************)
(* C15, amended.  The counters are updated only after create_pin has       *)
(* returned for the pin, and create_pin returns also for a pin_id that is  *)
(* already stored: total_pins_scraped is at most the number of pins of the *)
(* job, among those iterated, whose pin_id is in db.pins (stored for this  *)
(* job, or stored before and skipped).                                     *)
(***************************************************************************)
PinsInStore == { i \in 1..storeIdx : pin_exists(dbPins, all_pins[i].pin_id) }

C15_ProgressReflectsStore ==
    /\ job.total_pins_scraped <= processed_pins
    /\ processed_pins <= Cardinality(PinsInStore)
    /\ Cardinality(JobDocs) <= processed_pins + (IF jpc = "progress" THEN 1 ELSE 0)

\* A finished job that counted two pins: one it stored and one it skipped as
\* already stored.
C15_Witness ==
    /\ job.status = COMPLETED
    /\ job.total_pins_scraped = 2
    /\ Cardinality(JobDocs) = 1

(***************************************************************************)
(* The steps of the pool's threads, without the passing of time, under    *)
(* the scheduling the code relies on: a thread of the executor that can    *)
(* take a step takes it in the end (session.get has a timeout of 30 s,     *)
(* as_completed yields every finished future).                             *)
(***************************************************************************)
PoolWork ==
    \/ PoolStart
    \/ PoolRequestImage
    \/ PoolImageDone
    \/ PoolRequestAnalysis
    \/ PoolAnalysisDone
    \/ PoolReturn
    \/ PoolCollect

SpecPoolFair == PoolInit /\ [][PoolWork]_vars /\ WF_vars(PoolWork)

DatasetPins == { dataset[i] : i \in 1..Len(dataset) }

C18_BrokenSourceReported ==
    (cpc = "done" /\ broke) => result.raised

(***************************************************************************)
(* C19.  max_pins bound: extract_board_pins never returns more than        *)
(* max_pins pins, all with distinct ids, and makes no scroll once it has   *)
(* collected max_pins pins.                                                *)
(***************************************************************************)
C19_MaxPinsBound ==
    /\ Len(pins_data) <= max_pins
    /\ Len(result.pins) <= max_pins
    /\ \A i, j \in 1..Len(result.pins) : result.pins[i] = result.pins[j] => i = j
    /\ ~scrolled_at_limit

\* lines 322-327: the one reason for stopping that extract_board_pins puts
\* on record is the log line of the break; the list it returns carries none.
stopped_reason ==
    IF "No new pins loaded, stopping scroll" \in crawl_log THEN "no_new_pins"
    ELSE "none"

(***************************************************************************)
(* C20.  Step cap: whatever the board serves, extract_board_pins makes at  *)
(* most max_scroll_attempts scrolls, and when it stops because that cap is *)
(* reached (max_pins not reached, the last scroll still having added       *)
(* elements) it records stopped_reason = "step_cap".                       *)
(***************************************************************************)
C20_StepCap ==
    /\ scroll_attempts <= max_scroll_attempts
    /\ ( /\ cpc = "done" /\ ~broke
         /\ scroll_attempts = max_scroll_attempts
         /\ Len(pins_data) < max_pins
         /\ "No new pins loaded, stopping scroll" \notin crawl_log )
       => stopped_reason = "step_cap"

(***************************************************************************)
(* C21.  The end-of-feed signal (a scroll that added no element) ends the  *)
(* crawl only when it was observed on two scrolls in a row: a crawl that   *)
(* stopped for it has seen at least two such scrolls, the last two.        *)
(***************************************************************************)
C21_EndOfFeedSeenTwice ==
    (cpc = "done" /\ "No new pins loaded, stopping scroll" \in crawl_log)
        => no_growth_run >= 2

(***************************************************************************)
(* C22.  Per-board retry with exponential backoff: at most max_retries     *)
(* attempts are made for a board, a sleep follows every failed attempt but *)
(* the last one, and each sleep is twice as long as the one before it.     *)
(***************************************************************************)
FailedAttempts == { i \in 1..Len(attemptLog) : attemptLog[i] = "failed" }

C22_ExponentialBackoff ==
    /\ Len(attemptLog) <= max_retries
    /\ Len(waitLog) = IF Cardinality(FailedAttempts) < max_retries
                      THEN Cardinality(FailedAttempts) ELSE max_retries - 1
    /\ \A i \in 1..(Len(waitLog) - 1) : waitLog[i + 1] = 2 * waitLog[i]

(***************************************************************************)
(* C23.  delete_job deletes the job and its pins: once delete_job has      *)
(* returned True, db.pins holds no document with the job's job_id and the  *)
(* job document is absent, whatever a still running execute_scraping_job   *)
(* of the job does before, between and after the steps of the delete.      *)
(***************************************************************************)
C23_DeleteRemovesJobAndPins ==
    dpc = "returned_true" =>
        /\ ~job.stored
        /\ \A k \in 1..Len(dbPins) : dbPins[k].job_id # ThisJob

(***************************************************************************)
(* C24.  Every job that was stored as RUNNING has a stored terminal status *)
(* (COMPLETED or FAILED) once execute_scraping_job has returned, whatever  *)
(* failed on the way, a status update included.                            *)
(***************************************************************************)
C24_ReturnedJobIsTerminal ==
    (jpc = "done" /\ WasRunning) => job.status \in {COMPLETED, FAILED}

(***************************************************************************)
(* C25.  The counters of a job: every step that leaves the job COMPLETED   *)
(* leaves it with total_pins_analyzed <= total_pins_scraped and a          *)
(* progress_percentage of 100, and no step lowers progress_percentage or   *)
(* takes it out of 0..100.                                                 *)
(***************************************************************************)
C25_CountersConsistent ==
    [][/\ job'.status = COMPLETED =>
            /\ job'.total_pins_analyzed <= job'.total_pins_scraped
            /\ job'.progress_percentage = 100
       /\ job.progress_percentage <= job'.progress_percentage
       /\ job'.progress_percentage \in 0..100]_vars

(***************************************************************************)
(* api/database.py MongoDB.create_pin called by two tasks at once (two     *)
(* jobs storing their pins).  find_one and insert_one are two awaits: the  *)
(* other task may run between them.  The unique index on pin_id exists     *)
(* unless _create_indexes failed, which it only logs.                      *)
(***************************************************************************)
\* lines 175-178: find_one; a pin_id that is stored is skipped.
after_find_one(pins, pid) == IF pin_exists(pins, pid) THEN "returned" ELSE "insert"

\* line 180 with the index of line 70: insert_one raises DuplicateKeyError
\* for a pin_id the unique index holds already.
duplicate_key(pins, pid, unique) == unique /\ pin_exists(pins, pid)

InitCreate ==
    /\ \E p1 \in PinIds, p2 \in PinIds :
         calls = <<[pin |-> PinData(p1, "path", "None", FALSE), job_id |-> ThisJob,
                    pc |-> "find"],
                   [pin |-> PinData(p2, "path", "None", FALSE), job_id |-> "job_2",
                    pc |-> "find"]>>
    /\ \E S \in SUBSET PinIds : pins_coll = EarlierDocs(S)
    /\ has_index \in BOOLEAN

\* lines 172-178: the document is built and find_one awaited.
CreateFindOne ==
    /\ \E c \in DOMAIN calls :
         /\ calls[c].pc = "find"
         /\ calls' = [calls EXCEPT ![c].pc = after_find_one(pins_coll, calls[c].pin.pin_id)]
    /\ UNCHANGED <<pins_coll, has_index>>
    /\ UNCHANGED <<jobVars, pipeVars, autoVars, crawlVars, poolVars, cronVars, dlVars>>

\* lines 180-185: insert_one awaited; its exception is logged and raised
\* again.
CreateInsertOne ==
    /\ \E c \in DOMAIN calls :
         /\ calls[c].pc = "insert"
         /\ IF duplicate_key(pins_coll, calls[c].pin.pin_id, has_index)
            THEN /\ calls' = [calls EXCEPT ![c].pc = "raised"]
                 /\ UNCHANGED pins_coll
            ELSE /\ calls' = [calls EXCEPT ![c].pc = "returned"]
                 /\ pins_coll' = Append(pins_coll,
                                     convert_pin_to_document(calls[c].pin, calls[c].job_id))
    /\ UNCHANGED has_index
    /\ UNCHANGED <<jobVars, pipeVars, autoVars, crawlVars, poolVars, cronVars, dlVars>>

NextCreate ==
    \/ CreateFindOne
    \/ CreateInsertOne

CreateInit == InitCreate /\ IdleJob /\ IdlePipe /\ IdleAuto /\ IdleCrawl /\ IdlePool /\ IdleCron /\ IdleDl

SpecCreate == CreateInit /\ [][NextCreate]_vars

(***************************************************************************)
(* C26.  create_pin is idempotent by pin_id under concurrency: when two    *)
(* calls with the same pin_id have ended, in whatever order their steps    *)
(* ran, exactly one document with that pin_id is stored, a document that   *)
(* was stored before them is still the first one, and neither call has     *)
(* raised.                                                                 *)
(***************************************************************************)
C26_ConcurrentCreateIdempotent ==
    ( /\ calls # <<>>
      /\ calls[1].pin.pin_id = calls[2].pin.pin_id
      /\ \A c \in DOMAIN calls : calls[c].pc \in {"returned", "raised"} )
    => LET docs == { k \in 1..Len(pins_coll) :
                       pins_coll[k].pin_id = calls[1].pin.pin_id }
       IN /\ Cardinality(docs) = 1
          /\ \A k \in docs :
               (\E j \in docs : pins_coll[j].job_id = EarlierJob)
                  => pins_coll[k].job_id = EarlierJob
          /\ \A c \in DOMAIN calls : calls[c].pc = "returned"

(***************************************************************************)
(* C27.  A pin id is in scraped_pins from its discovery on, before the pin *)
(* is analysed and saved, and stays there when save_pin_data fails; the    *)
(* ids of the tracker file are all in scraped_pins.  Hence a pin whose     *)
(* save failed is processed once and never comes back as new in a later    *)
(* cycle: it is filtered out like a saved one.                             *)
(***************************************************************************)
SaveFailedPins == ProcessedPins \ DatasetPins

scrape_board_results ==
    [kind : {"error", "raised"}, pins : {<<>>}]
        \cup { [kind |-> "pins", pins |-> f] :
                 f \in { g \in UNION { [1..n -> PinIds] : n \in 0..MaxPinId } :
                           \A i, j \in DOMAIN g : g[i] = g[j] => i = j } }

\* get_existing_pin_ids: the pin ids of the table, or set() when reading fails.
get_existing_pin_ids(db, dbOk) == IF dbOk THEN db ELSE {}

\* scrape_new_pins: result['new_pins'], the pins whose id is not in
\* existing_pin_ids, in the order of result['pins'].  An 'error' result has
\* no new_pins and an exception gives the empty list.
scrape_new_pins(r, existing) ==
    IF r.kind = "pins"
    THEN SelectSeq(r.pins, LAMBDA p : p \notin existing)
    ELSE <<>>

\* The update of lines 187-189 were it to add only the pins that were saved.
add_saved_pins(existing, pins) == existing \cup (ids_of(pins) \ save_failed)

\* run_daily_scrape, lines 187-189: existing_pin_ids.add for every new pin.
add_new_pins(existing, pins) == existing \cup ids_of(pins)

InitCron ==
    /\ kpc = "start"
    /\ cron_db \in SUBSET PinIds
    /\ cron_existing = {}
    /\ cron_board = 0
    /\ cron_feed = <<>>
    /\ cron_new = <<>>
    /\ save_idx = 0
    /\ save_calls = <<>>
    /\ save_failed = {}

\* run_daily_scrape up to the for loop: existing_pin_ids is read once.
CronGetExisting ==
    /\ kpc = "start"
    /\ \E dbOk \in BOOLEAN :
         cron_existing' = get_existing_pin_ids(cron_db, dbOk)
    /\ kpc' = "scrape"
    /\ cron_board' = 1
    /\ UNCHANGED <<cron_db, cron_feed, cron_new, save_idx, save_calls, save_failed>>
    /\ UNCHANGED <<jobVars, pipeVars, autoVars, crawlVars, poolVars, createVars, dlVars>>

\* scrape_new_pins for the board of the loop.  A result without new pins
\* leaves nothing to save or to add, and the loop goes to the next board.
CronScrapeNewPins ==
    /\ kpc = "scrape"
    /\ \E r \in scrape_board_results :
         LET new == scrape_new_pins(r, cron_existing)
         IN /\ cron_feed' = Append(cron_feed, r)
            /\ cron_new' = Append(cron_new, new)
            /\ IF new # <<>>
               THEN kpc' = "save" /\ UNCHANGED cron_board
               ELSE IF cron_board < Len(board_urls)
                    THEN kpc' = "scrape" /\ cron_board' = cron_board + 1
                    ELSE kpc' = "done" /\ UNCHANGED cron_board
    /\ save_idx' = 0
    /\ UNCHANGED <<cron_db, cron_existing, save_calls, save_failed>>
    /\ UNCHANGED <<jobVars, pipeVars, autoVars, crawlVars, poolVars, createVars, dlVars>>

\* save_new_pins, one pin of the loop of lines 117-129: db.save_pin stores the
\* pin, or catches its own error and returns None.
CronSavePin ==
    /\ kpc = "save"
    /\ save_idx < Len(cron_new[cron_board])
    /\ LET pin == cron_new[cron_board][save_idx + 1]
       IN /\ save_calls' = Append(save_calls, pin)
          /\ \E dbOk \in BOOLEAN :
               IF dbOk
               THEN cron_db' = cron_db \cup {pin} /\ UNCHANGED save_failed
               ELSE save_failed' = save_failed \cup {pin} /\ UNCHANGED cron_db
    /\ save_idx' = save_idx + 1
    /\ UNCHANGED <<kpc, cron_existing, cron_board, cron_feed, cron_new>>
    /\ UNCHANGED <<jobVars, pipeVars, autoVars, crawlVars, poolVars, createVars, dlVars>>

\* The end of save_new_pins and lines 186-189 of run_daily_scrape: the new
\* pins of the board are added to existing_pin_ids, then the next board.
CronAddNewPins ==
    /\ kpc = "save"
    /\ save_idx = Len(cron_new[cron_board])
    /\ cron_existing' = add_new_pins(cron_existing, cron_new[cron_board])
    /\ IF cron_board < Len(board_urls)
       THEN kpc' = "scrape" /\ cron_board' = cron_board + 1
       ELSE kpc' = "done" /\ UNCHANGED cron_board
    /\ UNCHANGED <<cron_db, cron_feed, cron_new, save_idx, save_calls, save_failed>>
    /\ UNCHANGED <<jobVars, pipeVars, autoVars, crawlVars, poolVars, createVars, dlVars>>

NextCron ==
    \/ CronGetExisting
    \/ CronScrapeNewPins
    \/ CronSavePin
    \/ CronAddNewPins

CronInit == InitCron /\ IdleJob /\ IdlePipe /\ IdleAuto /\ IdleCrawl /\ IdlePool /\ IdleCreate /\ IdleDl

SpecCron == CronInit /\ [][NextCron]_vars

C29_OneDownloadOneAnalysis ==
    /\ \A i, j \in Futures :
         stage[i] = "downloading" /\ stage[j] = "downloading" => i = j
    /\ \A i, j \in Futures :
         stage[i] = "analyzing" /\ stage[j] = "analyzing" => i = j
    /\ \A i \in Futures :
         /\ stage[i] = "downloading" <=> download_lock = i
         /\ stage[i] = "analyzing" <=> analysis_lock = i

\* One thread is downloading an image while another thread is in its
\* analysis call, each holding its lock.
C29_Witness ==
    \E i, j \in Futures :
        /\ stage[i] = "downloading" /\ download_lock = i
        /\ stage[j] = "analyzing" /\ analysis_lock = j

(***************************************************************************)
(* ImageDownloader.download_image (image_downloader.py), called for one    *)
(* pin after the other by download_pin_images.  The target path of a pin   *)
(* depends on the pin only (generate_filename), so a later call for the    *)
(* pin meets what an earlier call left there.                              *)
(***************************************************************************)

\* Lines 84-100: a pin without image_url returns None; a target path that
\* exists is returned without a request.
DlCall ==
    /\ ipc = "idle"
    /\ \E p \in PinIds, has_url \in BOOLEAN :
         /\ dl_pin' = p
         /\ IF ~has_url
            THEN /\ dl_returns' = dl_returns \cup
                       {[pin |-> p, ret |-> "None", file |-> files[p]]}
                 /\ ipc' = "idle"
            ELSE IF files[p] # "absent"
            THEN /\ dl_returns' = dl_returns \cup
                       {[pin |-> p, ret |-> "path", file |-> files[p]]}
                 /\ ipc' = "idle"
            ELSE ipc' = "get" /\ UNCHANGED dl_returns
    /\ UNCHANGED files
    /\ UNCHANGED <<jobVars, pipeVars, autoVars, crawlVars, poolVars, createVars, cronVars>>

\* Lines 104-111: session.get with stream=True and raise_for_status; a
\* request error and a content type that is not image/* return None.
DlGet ==
    /\ ipc = "get"
    /\ \E answer \in {"request_error", "not_image", "image"} :
         IF answer = "image"
         THEN ipc' = "write" /\ UNCHANGED dl_returns
         ELSE /\ dl_returns' = dl_returns \cup
                    {[pin |-> dl_pin, ret |-> "None", file |-> files[dl_pin]]}
              /\ ipc' = "idle"
    /\ UNCHANGED <<dl_pin, files>>
    /\ UNCHANGED <<jobVars, pipeVars, autoVars, crawlVars, poolVars, createVars, cronVars>>

\* Lines 114-116 and 137-142: open(filepath, 'wb') creates the file and the
\* body is read from the connection chunk by chunk.  When the connection
\* breaks while the body is read (or a write fails), the exception leaves
\* the with block, which closes the file, and reaches the handlers of lines
\* 137-142, which log and return None.
DlWrite ==
    /\ ipc = "write"
    /\ \E body \in {"cut", "small", "invalid", "valid"} :
         IF body = "cut"
         THEN /\ files' = [files EXCEPT ![dl_pin] = "partial"]
              /\ dl_returns' = dl_returns \cup
                    {[pin |-> dl_pin, ret |-> "None", file |-> "partial"]}
              /\ ipc' = "idle"
         ELSE /\ files' = [files EXCEPT ![dl_pin] = body]
              /\ ipc' = "verify"
              /\ UNCHANGED dl_returns
    /\ UNCHANGED dl_pin
    /\ UNCHANGED <<jobVars, pipeVars, autoVars, crawlVars, poolVars, createVars, cronVars>>

\* Lines 119-135: Image.open; an image under 50 px and a file that is not
\* an image are removed and None is returned, otherwise the path.
DlVerify ==
    /\ ipc = "verify"
    /\ IF files[dl_pin] = "valid"
       THEN /\ dl_returns' = dl_returns \cup
                  {[pin |-> dl_pin, ret |-> "path", file |-> "valid"]}
            /\ UNCHANGED files
       ELSE /\ files' = [files EXCEPT ![dl_pin] = "absent"]
            /\ dl_returns' = dl_returns \cup
                  {[pin |-> dl_pin, ret |-> "None", file |-> "absent"]}
    /\ ipc' = "idle"
    /\ UNCHANGED dl_pin
    /\ UNCHANGED <<jobVars, pipeVars, autoVars, crawlVars, poolVars, createVars, cronVars>>

NextDl ==
    \/ DlCall
    \/ DlGet
    \/ DlWrite
    \/ DlVerify

DlInit == IdleDl /\ IdleJob /\ IdlePipe /\ IdleAuto /\ IdleCrawl /\ IdlePool /\ IdleCreate /\ IdleCron

SpecDl == DlInit /\ [][NextDl]_vars

(***************************************************************************)
(* C30.  download_image returns a path only for a file that passed the     *)
(* validation: when a call returns None no file is left at the target path *)
(* of the pin, and a path that is returned, by the download or by the      *)
(* already-exists shortcut of a later call, is that of a valid image.      *)
(***************************************************************************)
C30_NoFileAfterNone ==
    \A r \in dl_returns :
        /\ r.ret = "None" => r.file = "absent"
        /\ r.ret = "path" => r.file = "valid"

====
